---- MODULE Spec2Model ----
(***************************************************************************)
(* Verification model of the FastAPI backend: user management over the     *)
(* SQLite and MongoDB stores, password authentication with bearer tokens,  *)
(* and image storage in an object store.                                   *)
(*                                                                         *)
(* Strings whose characters matter (usernames, passwords, filenames,       *)
(* directory names) are sequences of one-character strings.                *)
(***************************************************************************)
EXTENDS Integers, Sequences, FiniteSets, TLC

VARIABLES
    \* ---- directory sanitisation (pure function harness)
    dirIn,          \* the directory name handed to _sanitize_directory_name
    dirOut,         \* what it returned or raised; kind "pending" before the call
    \* ---- bearer tokens
    now,            \* the clock (minutes), datetime.utcnow()
    token,          \* the bearer token at hand
    tokenOrigin,    \* how it came about: issued by create_access_token, or presented
    verdict,        \* what verify_token returned for it, and when
    \* ---- credential stores
    backend,        \* which endpoint family the run exercises
    sqliteUsers,    \* rows of the SQLite users table
    mongoUsers,     \* documents of the MongoDB users collection, in insertion order
    nextSalt,       \* salts drawn so far by pwd_context.hash
    nextOid,        \* ObjectIds generated so far
    mreq,           \* the MongoDB requests in flight, per request slot
    started,        \* requests started so far in the run
    resp,           \* the last HTTP response (or service result) produced
    \* ---- image storage
    objects,        \* the objects of the bucket
    nextUuid,       \* uuid4 values drawn so far
    ureq,           \* the uploads in flight, per request slot
    uploads,        \* image requests started so far in the run
    overlapped,     \* some upload started while another was in flight
    faulted,        \* some object-store call has failed
    iresp,          \* the last response of an image endpoint
    \* ---- password hashing
    hPlain,         \* the password last hashed or verified
    hStored,        \* the stored value it is verified against
    hSalt,          \* salts drawn so far
    hResult,        \* what verify_password did
    \* ---- the MinIO manager
    client,         \* MinIOManager.client
    server,         \* the MinIO server: reachable or not, with or without the bucket
    connects,       \* how the connect() calls so far ended, in order
    called          \* the last get_client() or ping() call and what it gave

sanVars   == <<dirIn, dirOut>>
tokenVars == <<now, token, tokenOrigin, verdict>>
userVars  == <<backend, sqliteUsers, mongoUsers, nextSalt, nextOid, mreq, started, resp>>
imageVars == <<objects, nextUuid, ureq, uploads, overlapped, faulted, iresp>>
hashVars  == <<hPlain, hStored, hSalt, hResult>>
managerVars == <<client, server, connects, called>>
vars      == <<dirIn, dirOut, now, token, tokenOrigin, verdict,
               backend, sqliteUsers, mongoUsers, nextSalt, nextOid, mreq, started, resp,
               objects, nextUuid, ureq, uploads, overlapped, faulted, iresp,
               hPlain, hStored, hSalt, hResult,
               client, server, connects, called>>

----------------------------------------------------------------------------
(* Sequence helpers                                                        *)

\* s[:n]
Take(s, n) == IF Len(s) <= n THEN s ELSE SubSeq(s, 1, n)

\* c * n
Rep(c, n) == [i \in 1..n |-> c]

\* all sequences over S of length at most n
SeqsUpTo(S, n) == UNION { [1..k -> S] : k \in 0..n }

\* Python's None, and the value wrappers of results that may be None
None == [kind |-> "None"]
Pending == [kind |-> "pending"]

----------------------------------------------------------------------------
(* ImageService._sanitize_directory_name                                   *)

\* Representatives of the character kinds the function distinguishes.
AsciiAlnum   == {"a", "7"}          \* [A-Za-z0-9]
UnicodeAlnum == {"é"}               \* non-ASCII letters and digits: str.isalnum() holds
DashUnder    == {"-", "_"}
OtherChars   == {".", "/"}
DirAlphabet  == AsciiAlnum \cup UnicodeAlnum \cup DashUnder \cup OtherChars

\* str.isalnum() for one character: Unicode letters and digits, not only ASCII
isalnum(c) == c \in AsciiAlnum \cup UnicodeAlnum

\* the generator's condition: c.isalnum() or c in ('-', '_')
SanitizeKeeps(c) == isalnum(c) \/ c \in DashUnder

MaxDirNameLen == 50

\* raise ValueError("Invalid directory name")
InvalidDirectory == [kind |-> "ValueError", detail |-> "Invalid directory name"]

_sanitize_directory_name(directory_name) ==
    LET sanitized == SelectSeq(directory_name, SanitizeKeeps)
    IN  IF sanitized = <<>> THEN InvalidDirectory
        ELSE [kind |-> "ok", value |-> Take(sanitized, MaxDirNameLen)]

\* Inputs: every short name over the alphabet, and long names around the
\* truncation length (a short head followed by a run of one character).
MaxShortDir == 3
MaxHead     == 1
LongSlack   == 2
ShortDirs == SeqsUpTo(DirAlphabet, MaxShortDir)
LongDirs  == { h \o Rep(c, n) : h \in SeqsUpTo(DirAlphabet, MaxHead),
                                c \in {"a", "."},
                                n \in (MaxDirNameLen - 1)..(MaxDirNameLen + LongSlack) }
DirInputs == ShortDirs \cup LongDirs

InitSan == dirIn \in DirInputs /\ dirOut = Pending

IdleSan == dirIn = <<>> /\ dirOut = Pending

\* one call of the function on the current input
Sanitize ==
    /\ dirOut = Pending
    /\ dirOut' = _sanitize_directory_name(dirIn)
    /\ UNCHANGED <<dirIn, tokenVars, userVars, imageVars, hashVars, managerVars>>

\* the next call, on another input
NextDir ==
    /\ dirOut # Pending
    /\ dirIn' \in DirInputs
    /\ dirOut' = Pending
    /\ UNCHANGED <<tokenVars, userVars, imageVars, hashVars, managerVars>>

----------------------------------------------------------------------------
(* Bearer tokens: AuthService / MongoAuthService create_access_token and   *)
(* verify_token (the two classes hold the same code).  The clock counts    *)
(* minutes.  jose's jwt.encode / jwt.decode are modelled by their contract:*)
(* a token carries its claims and the key that signed it; decode raises    *)
(* JWTError for a malformed token, a signature made with another key, an   *)
(* "exp" earlier than the current time, and a "sub" that is not a string.  *)

\* os.getenv("JWT_SECRET_KEY", "your-secret-key-change-in-production")
SECRET_KEY == "your-secret-key-change-in-production"
OtherKey   == "some-other-key"

\* int(os.getenv("JWT_EXPIRE_MINUTES", "30"))
ACCESS_TOKEN_EXPIRE_MINUTES == 30

Bob == <<"b", "o", "b">>
Ali == <<"a", "l", "i">>
Subjects == {Bob, Ali}

\* the "sub" entry of a claims dict: a string, some other JSON value, or absent
StrSub(u) == [kind |-> "str", value |-> u]
IntSub    == [kind |-> "int"]
NoSub     == [kind |-> "absent"]

JWTError == [kind |-> "JWTError"]

jwt_encode(claims, key) == [kind |-> "jwt", claims |-> claims, key |-> key]

jwt_decode(tok, key, t) ==
    IF tok.kind # "jwt" THEN JWTError                  \* not three base64 segments
    ELSE IF tok.key # key THEN JWTError                \* signature verification failed
    ELSE IF tok.claims.exp < t THEN JWTError           \* ExpiredSignatureError
    ELSE IF tok.claims.sub.kind = "int" THEN JWTError  \* JWTClaimsError
    ELSE [kind |-> "ok", payload |-> tok.claims]

\* expires_delta is a timedelta (in minutes) or None (hasDelta = FALSE);
\* "if expires_delta:" is false for None and for timedelta(0)
create_access_token_noTTL(data, hasDelta, expires_delta, t) ==
    jwt_encode([sub |-> data.sub, exp |-> t], SECRET_KEY)

create_access_token(data, hasDelta, expires_delta, t) ==
    LET expire == IF hasDelta /\ expires_delta # 0
                  THEN t + expires_delta
                  ELSE t + ACCESS_TOKEN_EXPIRE_MINUTES
        to_encode == [sub |-> data.sub, exp |-> expire]
    IN  jwt_encode(to_encode, SECRET_KEY)

\* the result of verify_token: the payload, None, or an exception that escapes
Raised(e) == [kind |-> "raise", error |-> e]

verify_token_noSubCheck(tok, t) ==
    LET d == jwt_decode(tok, SECRET_KEY, t)
    IN  IF d = JWTError THEN None
        ELSE [kind |-> "payload", payload |-> d.payload]

verify_token(tok, t) ==
    LET d == jwt_decode(tok, SECRET_KEY, t)
    IN  IF d = JWTError THEN None                          \* except JWTError
        ELSE IF d.payload.sub.kind = "absent" THEN None    \* username is None
        ELSE [kind |-> "payload", payload |-> d.payload]

MaxTime == 32

\* tokens a client may present: garbage, and well-formed tokens of every
\* subject kind, signed with the process key or another one
ExpChoices == {0, 1, ACCESS_TOKEN_EXPIRE_MINUTES, MaxTime}
PresentedTokens ==
    {[kind |-> "garbage"]} \cup
    { jwt_encode([sub |-> s, exp |-> e], k) :
        s \in {StrSub(Bob), IntSub, NoSub}, e \in ExpChoices, k \in {SECRET_KEY, OtherKey} }

InitToken ==
    /\ now = 0
    /\ token = [kind |-> "garbage"]
    /\ tokenOrigin = [kind |-> "presented"]
    /\ verdict = Pending

IdleToken == InitToken

\* login's call: create_access_token(data={"sub": username}, expires_delta=
\* timedelta(minutes=self.access_token_expire_minutes))
IssueToken ==
    /\ \E u \in Subjects :
          /\ token' = create_access_token([sub |-> StrSub(u)], TRUE,
                                          ACCESS_TOKEN_EXPIRE_MINUTES, now)
          /\ tokenOrigin' = [kind |-> "issued", sub |-> u, at |-> now]
    /\ verdict' = Pending
    /\ UNCHANGED <<now, sanVars, userVars, imageVars, hashVars, managerVars>>

\* create_access_token(data) with expires_delta left at its default None
IssueTokenDefault ==
    /\ \E u \in Subjects :
          /\ token' = create_access_token([sub |-> StrSub(u)], FALSE, 0, now)
          /\ tokenOrigin' = [kind |-> "issued", sub |-> u, at |-> now]
    /\ verdict' = Pending
    /\ UNCHANGED <<now, sanVars, userVars, imageVars, hashVars, managerVars>>

\* a client presents a token of its own making
PresentToken ==
    /\ token' \in PresentedTokens
    /\ tokenOrigin' = [kind |-> "presented"]
    /\ verdict' = Pending
    /\ UNCHANGED <<now, sanVars, userVars, imageVars, hashVars, managerVars>>

\* a minute passes
Tick ==
    /\ now < MaxTime
    /\ now' = now + 1
    /\ verdict' = Pending
    /\ UNCHANGED <<token, tokenOrigin, sanVars, userVars, imageVars, hashVars, managerVars>>

VerifyToken ==
    /\ verdict = Pending
    /\ verdict' = verify_token(token, now)
    /\ UNCHANGED <<now, token, tokenOrigin, sanVars, userVars, imageVars, hashVars, managerVars>>

----------------------------------------------------------------------------
(* Credentials: passwords and their hashes                                 *)

Pw1     == <<"s", "e", "c", "r", "e", "t">>
PwShort == <<"a", "b", "c">>
NameShort == <<"a", "b">>

\* the lengths MongoUser's fields declare (min_length, max_length), which
\* the services' validators repeat in part; User declares String(50)
MinUsernameLen == 3
MinPasswordLen == 6
MaxUsernameLen == 50

\* a username one character longer than the columns declare
NameLong == [i \in 1..(MaxUsernameLen + 1) |-> "x"]

UserNames == {<<>>, NameShort, Bob, Ali, NameLong}
PassWords == {<<>>, PwShort, Pw1, Pw1 \o <<"x">>}

\* A stored password column is a string: here either the text it was given
\* verbatim, or a bcrypt hash, which embeds the salt and stands for one
\* plaintext (passlib's CryptContext(schemes=["bcrypt"])).
PlainText(p) == [kind |-> "text", value |-> p]

\* passlib's bcrypt handler refuses a secret that holds a NUL character
\* (NullPasswordError), when hashing and when verifying
NulChar == "NUL"
HasNul(secret) == \E i \in DOMAIN secret : secret[i] = NulChar

\* pwd_context.hash(password), drawing salt n
get_password_hash(password, n) ==
    IF HasNul(password)
    THEN Raised("NullPasswordError")
    ELSE [kind |-> "bcrypt", salt |-> n, digest |-> password]

\* len() of a stored password; a bcrypt hash string has 60 characters
StoredLen(stored) == IF stored.kind = "bcrypt" THEN 60 ELSE Len(stored.value)

\* pwd_context.verify(plain_password, hashed_password): True or False for a
\* bcrypt hash; passlib raises UnknownHashError for a string it cannot
\* identify as a hash of one of its schemes
verify_password(plain_password, hashed_password) ==
    IF hashed_password.kind = "bcrypt"
    THEN IF HasNul(plain_password)
         THEN Raised("NullPasswordError")
         ELSE [kind |-> "bool", value |-> hashed_password.digest = plain_password]
    ELSE IF hashed_password.kind = "text"
    THEN Raised("UnknownHashError")
    ELSE Raised("MalformedHashError")

\* authenticate_user, given what the lookup by username found
authenticate_user(found, password) ==
    IF found = None THEN None
    ELSE LET v == verify_password(password, found.user.password)
         IN  IF v.kind = "raise" THEN v
             ELSE IF ~v.value THEN None
             ELSE found

\* AuthService.login / MongoAuthService.login up to the token: None, an
\* escaping exception, or the authenticated user
login(found, password) == authenticate_user(found, password)

Found(u) == [kind |-> "user", user |-> u]

\* What a password column may hold besides the hashes this process wrote:
\* any text, and a string with bcrypt's prefix that is no complete hash
\* (passlib identifies the scheme and then fails to parse it).
BrokenHash == [kind |-> "broken"]
ForeignStored == {PlainText(p) : p \in PassWords} \cup {BrokenHash}

----------------------------------------------------------------------------
(* HTTP responses                                                          *)

\* What a finished request leaves for inspection: the operation, the status
\* code and detail of the HTTP response, the id it concerned, for a created
\* user the credentials it was created with, for an updated user the
\* password of the payload (empty when it had none), and for a login or a create
\* whether the identity was on record when the request looked it up.
NoResp == [op |-> "none", status |-> 0, detail |-> "", username |-> <<>>,
           password |-> <<>>, id |-> 0, known |-> FALSE, raised |-> FALSE]

Response(op, status, detail, u, p, id) ==
    [op |-> op, status |-> status, detail |-> detail,
     username |-> IF op = "create" /\ status = 201 THEN u ELSE <<>>,
     password |-> IF (op = "create" /\ status = 201) \/ (op = "update" /\ status = 200)
                  THEN p ELSE <<>>,
     id |-> id, known |-> FALSE, raised |-> FALSE]

LoginResponse(op, status, detail, id, known) ==
    [op |-> op, status |-> status, detail |-> detail, username |-> <<>>,
     password |-> <<>>, id |-> id, known |-> known, raised |-> FALSE]

\* the response of a request during which a call raised an exception that
\* is none of those the handler names
Raising(r) == [r EXCEPT !.raised = TRUE]

\* the response of a create request, with what its lookup by username found
CreateResponse(status, detail, u, p, id, known) ==
    [Response("create", status, detail, u, p, id) EXCEPT !.known = known]

InternalError == "Internal server error"
UsernameExists == "Username already exists"
UserNotFound == "User not found"
BadLogin == "Incorrect username or password"

\* SQLiteUserService._validate_create_data / MongoUserService._validate_create_data:
\* the ValueError message, or "" when the data passes.  password is the
\* length of the "password" entry as the validator sees it.

_validate_create_data(username, passwordLen) ==
    IF username = <<>> THEN "Username is required"
    ELSE IF passwordLen = 0 THEN "Password is required"
    ELSE IF Len(username) < MinUsernameLen
         THEN "Username must be at least 3 characters long"
    ELSE IF passwordLen < MinPasswordLen
         THEN "Password must be at least 6 characters long"
    ELSE ""

\* update payloads: UserUpdate.dict(exclude_unset=True)
Payload(hasU, u, hasP, p) == [hasU |-> hasU, u |-> u, hasP |-> hasP, p |-> p]
UpdatePayloads ==
    { Payload(FALSE, <<>>, FALSE, <<>>),            \* {}
      Payload(TRUE, Ali, FALSE, <<>>),              \* {"username": "ali"}
      Payload(TRUE, NameShort, FALSE, <<>>),        \* {"username": "ab"}
      Payload(TRUE, NameLong, FALSE, <<>>),         \* {"username": "xx...x"} (51)
      Payload(FALSE, <<>>, TRUE, Pw1 \o <<"x">>),   \* {"password": "secretx"}
      Payload(FALSE, <<>>, TRUE, PwShort),          \* {"password": "abc"}
      Payload(TRUE, Bob, TRUE, Pw1) }               \* {"username": "bob", "password": "secret"}

_validate_update_data(data) ==
    IF data.hasU /\ Len(data.u) < MinUsernameLen
    THEN "Username must be at least 3 characters long"
    ELSE IF data.hasP /\ Len(data.p) < MinPasswordLen
    THEN "Password must be at least 6 characters long"
    ELSE ""

\* the loop "for field, value in obj_data.items(): setattr(obj, field, value)"
\* of BaseRepository.update and MongoRepository.update
SetFields(obj, data) ==
    [obj EXCEPT !.username = IF data.hasU THEN data.u ELSE @,
                !.password = IF data.hasP THEN PlainText(data.p) ELSE @]

MaxUsers    == 2   \* rows or documents a store may hold
MaxSalt     == 3   \* hashes computed in a run
MaxRequests == 3   \* requests served in a run

\* a request arrives
Arrive == started < MaxRequests /\ started' = started + 1

\* ---- password hashing on its own: hash, read a column, verify
InitHash ==
    /\ hPlain = <<>>
    /\ hStored = PlainText(<<>>)
    /\ hSalt = 0
    /\ hResult = Pending

\* the plaintexts handed to get_password_hash and verify_password
HashInputs == PassWords \cup {<<"a", NulChar, "b", "c", "d", "e">>}

\* get_password_hash(password): a new salt each time; an exception leaves
\* nothing to store
HashPassword ==
    /\ hSalt < MaxSalt
    /\ \E password \in HashInputs :
         LET hashed == get_password_hash(password, hSalt + 1)
         IN  /\ hPlain' = password
             /\ IF hashed.kind = "raise"
                THEN hStored' = hStored /\ hResult' = hashed
                ELSE hStored' = hashed /\ hResult' = Pending
    /\ hSalt' = hSalt + 1
    /\ UNCHANGED <<sanVars, tokenVars, userVars, imageVars, managerVars>>

\* get_password_hash(password) called twice, and verify_password of the
\* password against each of the two results
HashTwice ==
    /\ hSalt + 1 < MaxSalt
    /\ \E password \in HashInputs :
         LET first  == get_password_hash(password, hSalt + 1)
             second == get_password_hash(password, hSalt + 2)
             Check(hashed) == IF hashed.kind = "raise" THEN hashed
                              ELSE verify_password(password, hashed)
         IN  /\ hPlain' = password
             /\ hStored' = IF second.kind = "raise" THEN hStored ELSE second
             /\ hResult' = [kind |-> "twice", first |-> first, second |-> second,
                            verified |-> <<Check(first), Check(second)>>]
    /\ hSalt' = hSalt + 2
    /\ UNCHANGED <<sanVars, tokenVars, userVars, imageVars, managerVars>>

\* a stored value that get_password_hash did not produce
ReadStored ==
    /\ \E stored \in ForeignStored : hStored' = stored
    /\ hResult' = Pending
    /\ UNCHANGED <<hPlain, hSalt, sanVars, tokenVars, userVars, imageVars, managerVars>>

\* verify_password(plain_password, hashed_password)
VerifyPassword ==
    /\ \E plain_password \in HashInputs :
         /\ hPlain' = plain_password
         /\ hResult' = verify_password(plain_password, hStored)
    /\ UNCHANGED <<hStored, hSalt, sanVars, tokenVars, userVars, imageVars, managerVars>>

----------------------------------------------------------------------------
(* SQLite endpoints.  The handlers are coroutines that never await: each   *)
(* request runs to completion on the event loop, so each is one action.    *)

mongoVars == <<mongoUsers, nextOid, mreq>>

\* db.query(User).filter(User.id == id).first()
SqliteById(id) ==
    IF \E r \in sqliteUsers : r.id = id
    THEN Found(CHOOSE r \in sqliteUsers : r.id = id)
    ELSE None

\* UserRepository.get_by_username
SqliteByUsername(username) ==
    IF \E r \in sqliteUsers : r.username = username
    THEN Found(CHOOSE r \in sqliteUsers : r.username = username)
    ELSE None

\* the rowid SQLite gives an INTEGER PRIMARY KEY: one more than the largest
SqliteNewId ==
    IF sqliteUsers = {} THEN 1
    ELSE 1 + CHOOSE m \in {r.id : r \in sqliteUsers} : \A r \in sqliteUsers : r.id <= m

\* Column(String(50), unique=True): the commit raises IntegrityError when
\* another row holds the username
SqliteUniqueOk(rows) == \A r1, r2 \in rows : r1.username = r2.username => r1 = r2

SqliteIds == 1..(MaxUsers + 1)

\* POST /api/sqlite-users/
SqliteCreateUser ==
    /\ backend = "sqlite"
    /\ Arrive
    /\ \E u \in UserNames, p \in PassWords :
         LET existing == SqliteByUsername(u)
             hashed   == get_password_hash(p, nextSalt)
             err      == _validate_create_data(u, StoredLen(hashed))
             row      == [id |-> SqliteNewId, username |-> u, password |-> hashed]
         IN  IF existing # None
             THEN \* HTTPException(400) raised inside the try, caught by
                  \* "except Exception" and replaced
                  /\ resp' = CreateResponse(500, InternalError, u, p, 0, TRUE)
                  /\ UNCHANGED <<sqliteUsers, nextSalt>>
             ELSE /\ nextSalt < MaxSalt
                  /\ nextSalt' = nextSalt + 1
                  /\ IF err # ""
                     THEN /\ resp' = CreateResponse(400, err, u, p, 0, FALSE)
                          /\ UNCHANGED sqliteUsers
                     ELSE IF ~SqliteUniqueOk(sqliteUsers \cup {row})
                     THEN /\ resp' = Raising(Response("create", 500, InternalError, u, p, 0))
                          /\ UNCHANGED sqliteUsers
                     ELSE /\ Cardinality(sqliteUsers) < MaxUsers
                          /\ sqliteUsers' = sqliteUsers \cup {row}
                          /\ resp' = Response("create", 201, "", u, p, row.id)
    /\ UNCHANGED <<backend, mongoVars, sanVars, tokenVars, imageVars, hashVars, managerVars>>

\* PUT /api/sqlite-users/{user_id}
SqliteUpdateUser ==
    /\ backend = "sqlite"
    /\ Arrive
    /\ \E id \in SqliteIds, data \in UpdatePayloads :
         LET existing == SqliteById(id)
             clash    == IF data.hasU THEN SqliteByUsername(data.u) ELSE None
             err      == _validate_update_data(data)
             updated  == SetFields(existing.user, data)
             rows     == (sqliteUsers \ {existing.user}) \cup {updated}
         IN  IF existing = None
             THEN /\ resp' = Response("update", 404, UserNotFound, data.u, data.p, id)
                  /\ UNCHANGED sqliteUsers
             ELSE IF clash # None /\ clash.user.id # id
             THEN /\ resp' = Response("update", 400, UsernameExists, data.u, data.p, id)
                  /\ UNCHANGED sqliteUsers
             ELSE IF err # ""
             THEN /\ resp' = Response("update", 400, err, data.u, data.p, id)
                  /\ UNCHANGED sqliteUsers
             ELSE IF ~SqliteUniqueOk(rows)
             THEN /\ resp' = Raising(Response("update", 500, InternalError,
                                               data.u, data.p, id))
                  /\ UNCHANGED sqliteUsers
             ELSE /\ sqliteUsers' = rows
                  /\ resp' = Response("update", 200, "", data.u, data.p, id)
    /\ UNCHANGED <<backend, nextSalt, mongoVars, sanVars, tokenVars, imageVars, hashVars, managerVars>>

\* DELETE /api/sqlite-users/{user_id}
SqliteDeleteUser ==
    /\ backend = "sqlite"
    /\ Arrive
    /\ \E id \in SqliteIds :
         LET existing == SqliteById(id)
         IN  IF existing = None
             THEN /\ resp' = Response("delete", 404, UserNotFound, <<>>, <<>>, id)
                  /\ UNCHANGED sqliteUsers
             ELSE /\ sqliteUsers' = sqliteUsers \ {existing.user}
                  /\ resp' = Response("delete", 204, "", <<>>, <<>>, id)
    /\ UNCHANGED <<backend, nextSalt, mongoVars, sanVars, tokenVars, imageVars, hashVars, managerVars>>

\* AuthService.login(db, username, password): a service call, not routed;
\* the response records what it returned ("user" stands for the token dict)
SqliteLogin ==
    /\ backend = "sqlite"
    /\ Arrive
    /\ \E u \in UserNames, p \in PassWords :
         LET r == login(SqliteByUsername(u), p)
         IN  resp' = LoginResponse("service_login", 0, r.kind,
                                   IF r.kind = "user" THEN r.user.id ELSE 0,
                                   SqliteByUsername(u) # None)
    /\ UNCHANGED <<backend, sqliteUsers, nextSalt, mongoVars, sanVars, tokenVars, imageVars, hashVars, managerVars>>

----------------------------------------------------------------------------
(* MongoDB endpoints.  The handlers await every database call, so other    *)
(* requests run between a handler's queries: each query is one step.       *)
(* MongoUser declares username with Field(unique=True), which Beanie does  *)
(* not turn into an index (no Indexed(), no Settings.indexes): the         *)
(* collection accepts any insert.                                          *)

Procs == {"r1", "r2"}

Idle == [pc |-> "idle"]

MalformedOid == 0                   \* an id string that is no ObjectId
MaxOid == 2                         \* ObjectIds generated in a run
MongoIds == {MalformedOid} \cup (1..MaxOid)

Docs == { mongoUsers[i] : i \in DOMAIN mongoUsers }

\* MongoUser.find_one(MongoUser.username == username): the first match
MongoFindOne(username) ==
    IF \E i \in DOMAIN mongoUsers : mongoUsers[i].username = username
    THEN Found(mongoUsers[CHOOSE i \in DOMAIN mongoUsers :
                  /\ mongoUsers[i].username = username
                  /\ \A j \in DOMAIN mongoUsers :
                        mongoUsers[j].username = username => i <= j])
    ELSE None

\* MongoRepository.get_by_id: PydanticObjectId(document_id) inside try/except
MongoGetById(id) ==
    IF id # MalformedOid /\ \E d \in Docs : d.id = id
    THEN Found(CHOOSE d \in Docs : d.id = id)
    ELSE None

\* MongoRepository.exists("username", value, exclude_id), for a well-formed
\* exclude_id, or none (exclude = MalformedOid stands for "not given")
MongoExists(username, exclude) ==
    \E d \in Docs : d.username = username /\ d.id # exclude

\* the model's own validation when MongoUser(**data) is constructed
MongoUserFieldsOk(username, stored) ==
    /\ Len(username) >= MinUsernameLen
    /\ Len(username) <= MaxUsernameLen
    /\ StoredLen(stored) >= MinPasswordLen

\* document.save(): writes the document's fields under its id, inserting
\* the document when the collection no longer holds it
MongoSave(doc) ==
    IF \E i \in DOMAIN mongoUsers : mongoUsers[i].id = doc.id
    THEN [i \in DOMAIN mongoUsers |->
             IF mongoUsers[i].id = doc.id THEN doc ELSE mongoUsers[i]]
    ELSE Append(mongoUsers, doc)

\* document.delete()
MongoRemove(id) == SelectSeq(mongoUsers, LAMBDA d : d.id # id)

Finish(p, r) ==
    /\ mreq' = [mreq EXCEPT ![p] = Idle]
    /\ resp' = r

Goto(p, frame) ==
    /\ mreq' = [mreq EXCEPT ![p] = frame]
    /\ resp' = NoResp

\* POST /api/mongo-users/ up to the answer of repository.exists
MongoCreateCheck(p) ==
    /\ backend = "mongo"
    /\ mreq[p] = Idle
    /\ Arrive
    /\ \E u \in UserNames, pw \in PassWords :
         LET err == _validate_create_data(u, Len(pw))
         IN  IF err # ""
             THEN Finish(p, CreateResponse(400, err, u, pw, 0,
                                           MongoExists(u, MalformedOid)))
             ELSE IF MongoExists(u, MalformedOid)
             THEN Finish(p, CreateResponse(400, UsernameExists, u, pw, 0, TRUE))
             ELSE Goto(p, [pc |-> "create_insert", username |-> u, password |-> pw])
    /\ UNCHANGED <<backend, sqliteUsers, mongoUsers, nextSalt, nextOid, sanVars, tokenVars, imageVars, hashVars, managerVars>>

\* ... the password is hashed, the document built and inserted
MongoCreateInsert(p) ==
    /\ backend = "mongo"
    /\ mreq[p].pc = "create_insert"
    /\ nextSalt < MaxSalt
    /\ LET u      == mreq[p].username
           pw     == mreq[p].password
           hashed == get_password_hash(pw, nextSalt)
           doc    == [id |-> nextOid + 1, username |-> u, password |-> hashed]
       IN  /\ nextSalt' = nextSalt + 1
           /\ IF ~MongoUserFieldsOk(u, hashed)
              THEN /\ Finish(p, Response("create", 400, "validation error", u, pw, 0))
                   /\ UNCHANGED <<mongoUsers, nextOid>>
              ELSE /\ nextOid < MaxOid
                   /\ Len(mongoUsers) < MaxUsers
                   /\ mongoUsers' = Append(mongoUsers, doc)
                   /\ nextOid' = nextOid + 1
                   /\ Finish(p, Response("create", 201, "", u, pw, doc.id))
    /\ UNCHANGED <<backend, sqliteUsers, started, sanVars, tokenVars, imageVars, hashVars, managerVars>>

\* GET /api/mongo-users/{user_id}: one query, get_by_id, which returns None
\* for every exception of the driver ("except Exception: return None")
MongoGetUser ==
    /\ backend = "mongo"
    /\ Arrive
    /\ \E id \in MongoIds, outcome \in {"ok", "error"} :
         LET user == IF outcome = "error" THEN None ELSE MongoGetById(id)
             r    == IF user = None
                     THEN Response("get", 404, UserNotFound, <<>>, <<>>, id)
                     ELSE Response("get", 200, "", <<>>, <<>>, id)
         IN  resp' = IF outcome = "error" THEN Raising(r) ELSE r
    /\ UNCHANGED <<backend, sqliteUsers, mongoVars, nextSalt, sanVars, tokenVars, imageVars, hashVars, managerVars>>

\* PUT /api/mongo-users/{user_id} up to the answer of repository.exists
MongoUpdateCheck(p) ==
    /\ backend = "mongo"
    /\ mreq[p] = Idle
    /\ Arrive
    /\ \E id \in MongoIds, data \in UpdatePayloads :
         LET err == _validate_update_data(data)
         IN  IF err # ""
             THEN Finish(p, Response("update", 400, err, data.u, data.p, id))
             ELSE IF data.hasU /\ id = MalformedOid
             THEN \* PydanticObjectId(exclude_id) raises in repository.exists
                  Finish(p, Raising(Response("update", 500, InternalError,
                                             data.u, data.p, id)))
             ELSE IF data.hasU /\ MongoExists(data.u, id)
             THEN Finish(p, Response("update", 400, UsernameExists, data.u, data.p, id))
             ELSE Goto(p, [pc |-> "update_get", id |-> id, data |-> data])
    /\ UNCHANGED <<backend, sqliteUsers, mongoUsers, nextSalt, nextOid, sanVars, tokenVars, imageVars, hashVars, managerVars>>

\* ... repository.update: get_by_id, then the setattr loop
MongoUpdateGet(p) ==
    /\ backend = "mongo"
    /\ mreq[p].pc = "update_get"
    /\ LET id       == mreq[p].id
           data     == mreq[p].data
           document == MongoGetById(id)
       IN  IF document = None
           THEN Finish(p, Response("update", 404, UserNotFound, data.u, data.p, id))
           ELSE Goto(p, [pc |-> "update_save", id |-> id, data |-> data,
                         document |-> SetFields(document.user, data)])
    /\ UNCHANGED <<backend, sqliteUsers, mongoUsers, nextSalt, nextOid, started, sanVars, tokenVars, imageVars, hashVars, managerVars>>

\* ... document.save_with_timestamp()
MongoUpdateSave(p) ==
    /\ backend = "mongo"
    /\ mreq[p].pc = "update_save"
    /\ LET data == mreq[p].data
       IN  /\ mongoUsers' = MongoSave(mreq[p].document)
           /\ Finish(p, Response("update", 200, "", data.u, data.p, mreq[p].id))
    /\ UNCHANGED <<backend, sqliteUsers, nextSalt, nextOid, started, sanVars, tokenVars, imageVars, hashVars, managerVars>>

\* DELETE /api/mongo-users/{user_id}: repository.delete's get_by_id
MongoDeleteGet(p) ==
    /\ backend = "mongo"
    /\ mreq[p] = Idle
    /\ Arrive
    /\ \E id \in MongoIds :
         IF MongoGetById(id) = None
         THEN Finish(p, Response("delete", 404, UserNotFound, <<>>, <<>>, id))
         ELSE Goto(p, [pc |-> "delete_remove", id |-> id])
    /\ UNCHANGED <<backend, sqliteUsers, mongoUsers, nextSalt, nextOid, sanVars, tokenVars, imageVars, hashVars, managerVars>>

\* ... document.delete()
MongoDeleteRemove(p) ==
    /\ backend = "mongo"
    /\ mreq[p].pc = "delete_remove"
    /\ mongoUsers' = MongoRemove(mreq[p].id)
    /\ Finish(p, Response("delete", 204, "", <<>>, <<>>, mreq[p].id))
    /\ UNCHANGED <<backend, sqliteUsers, nextSalt, nextOid, started, sanVars, tokenVars, imageVars, hashVars, managerVars>>

\* POST /api/auth/login: one query (find_one), then the password check; a
\* None result becomes 401, an escaping exception 500
\* A successful login hands the client the token made by
\* create_access_token(data={"sub": user.username}, ...), which the client
\* keeps; the request writes to no store and is not counted by Arrive.
MongoLogin ==
    /\ backend = "mongo"
    /\ \E u \in UserNames, pw \in PassWords :
         LET r == login(MongoFindOne(u), pw)
             known == MongoFindOne(u) # None
         IN  IF r.kind = "raise"
             THEN /\ resp' = Raising(LoginResponse("login", 500, InternalError, 0, known))
                  /\ UNCHANGED <<token, tokenOrigin>>
             ELSE IF r = None
             THEN /\ resp' = LoginResponse("login", 401, BadLogin, 0, known)
                  /\ UNCHANGED <<token, tokenOrigin>>
             ELSE /\ resp' = LoginResponse("login", 200, "", r.user.id, known)
                  /\ token' = create_access_token([sub |-> StrSub(r.user.username)],
                                                  TRUE, ACCESS_TOKEN_EXPIRE_MINUTES, now)
                  /\ tokenOrigin' = [kind |-> "issued", sub |-> r.user.username,
                                     at |-> now, id |-> r.user.id]
    /\ UNCHANGED <<backend, sqliteUsers, mongoVars, nextSalt, started, now, verdict,
                   sanVars, imageVars, hashVars, managerVars>>

\* GET /api/auth/verify with "Authorization: Bearer <token>": get_current_user
\* decodes the token and looks its "sub" up with find_one
MongoVerify ==
    /\ backend = "mongo"
    /\ LET payload == verify_token(token, now)
           user    == IF payload = None THEN None
                      ELSE MongoFindOne(payload.payload.sub.value)
       IN  resp' = IF user = None
                   THEN LoginResponse("verify", 401, "Invalid token", 0, FALSE)
                   ELSE LoginResponse("verify", 200, "", user.user.id, TRUE)
    /\ UNCHANGED <<backend, sqliteUsers, mongoVars, nextSalt, started,
                   sanVars, tokenVars, imageVars, hashVars, managerVars>>

InitUsers ==
    /\ backend \in {"sqlite", "mongo"}
    /\ sqliteUsers = {}
    /\ mongoUsers = <<>>
    /\ nextSalt = 0
    /\ nextOid = 0
    /\ mreq = [p \in Procs |-> Idle]
    /\ started = 0
    /\ resp = NoResp

IdleUsers ==
    /\ backend = "none"
    /\ sqliteUsers = {}
    /\ mongoUsers = <<>>
    /\ nextSalt = 0
    /\ nextOid = 0
    /\ mreq = [p \in Procs |-> Idle]
    /\ started = 0
    /\ resp = NoResp

----------------------------------------------------------------------------
(* Image storage: ImageService over MinIORepository                        *)

\* str.lower(), on the characters that occur in the file names below
Lower(c) == CASE c = "P" -> "p" [] c = "N" -> "n" [] c = "G" -> "g" [] OTHER -> c
lower(s) == [i \in 1..Len(s) |-> Lower(s[i])]

\* s.rfind(c), counted from 1; 0 when c does not occur
rfind(s, c) ==
    LET at == {i \in 1..Len(s) : s[i] = c}
    IN  IF at = {} THEN 0 ELSE CHOOSE i \in at : \A j \in at : j <= i

\* s.startswith(prefix)
startswith(s, prefix) ==
    Len(s) >= Len(prefix) /\ SubSeq(s, 1, Len(prefix)) = prefix

\* os.path.splitext(filename)[1].lower(): the text from the last dot of the
\* last path component on, unless only dots precede it in that component
_get_file_extension(filename) ==
    LET sepIndex == rfind(filename, "/")
        dotIndex == rfind(filename, ".")
    IN  IF /\ dotIndex > sepIndex
           /\ \E i \in (sepIndex + 1)..(dotIndex - 1) : filename[i] # "."
        THEN lower(SubSeq(filename, dotIndex, Len(filename)))
        ELSE <<>>

allowed_extensions ==
    { <<".", "j", "p", "g">>, <<".", "j", "p", "e", "g">>, <<".", "p", "n", "g">>,
      <<".", "g", "i", "f">>, <<".", "b", "m", "p">>, <<".", "w", "e", "b", "p">> }

max_file_size == 10 * 1024 * 1024

\* the uploaded files the requests carry: name, declared type, content
NamePhoto  == <<"p", ".", "p", "n", "g">>
NameOther  == <<"q", ".", "p", "n", "g">>
NameUpper  == <<"p", ".", "P", "N", "G">>
NameText   == <<"p", ".", "t", "x", "t">>
NameHidden == <<".", "p", "n", "g">>

ImagePrefix == <<"i", "m", "a", "g", "e", "/">>
CtPng  == ImagePrefix \o <<"p", "n", "g">>
CtText == <<"t", "e", "x", "t", "/", "p", "l", "a", "i", "n">>

\* content that Pillow decodes, of a given length, and content it does not
Picture(size) == [kind |-> "image", size |-> size, width |-> 4, height |-> 3]
Garbage(size) == [kind |-> "bytes", size |-> size, width |-> 0, height |-> 0]

UploadFile(filename, content_type, content) ==
    [filename |-> filename, content_type |-> content_type, content |-> content]

\* a well-formed upload and its variations, one per thing the checks look at
Files ==
    { UploadFile(NamePhoto, CtPng, Picture(2048)),
      UploadFile(NameOther, CtPng, Picture(2048)),
      UploadFile(NameUpper, CtPng, Picture(max_file_size)),
      UploadFile(NamePhoto, CtPng, Picture(max_file_size + 1)),
      UploadFile(NamePhoto, CtPng, Garbage(2048)),
      UploadFile(<<>>, CtPng, Picture(2048)),
      UploadFile(NameText, CtPng, Picture(2048)),
      UploadFile(NameHidden, CtPng, Picture(2048)),
      UploadFile(NamePhoto, CtText, Picture(2048)),
      UploadFile(NamePhoto, <<>>, Picture(2048)),
      \* and uploads that fail several checks at once
      UploadFile(<<>>, CtText, Garbage(max_file_size + 1)),
      UploadFile(NameText, CtText, Garbage(2048)),
      UploadFile(NamePhoto, CtPng, Garbage(max_file_size + 1)) }

\* directory names as the caller sends them
UploadDirs == {<<"a">>, <<".", ".", "/", "a">>, <<"7">>, <<".", ".">>}

NotAllowedType == "File type not allowed"
NoFilename     == "No filename provided"
NotAnImage     == "File must be an image"
DuplicateName  == "File with name already exists in directory"
TooLarge       == "Invalid image file: File size too large"
NotDecodable   == "Invalid image file: cannot identify image file"
UploadFailed   == "Failed to upload image to storage"
DeleteFailed   == "Failed to delete image from storage"
ImageNotFound  == "Image not found in directory"

\* the message of the ValueError it raises, "" when it returns
_validate_file(file) ==
    IF file.filename = <<>> THEN NoFilename
    ELSE IF lower(_get_file_extension(file.filename)) \notin allowed_extensions
    THEN NotAllowedType
    ELSE IF file.content_type = <<>> \/ ~startswith(file.content_type, ImagePrefix)
    THEN NotAnImage
    ELSE ""

\* every exception of the body, the size error included, is re-raised as
\* ValueError("Invalid image file: ...")
_validate_and_process_image_atCeiling(file_content) ==
    IF file_content.size >= max_file_size
    THEN [kind |-> "ValueError", detail |-> TooLarge]
    ELSE IF file_content.kind # "image"
    THEN [kind |-> "ValueError", detail |-> NotDecodable]
    ELSE [kind |-> "ok", width |-> file_content.width, height |-> file_content.height]
_validate_and_process_image(file_content) ==
    IF file_content.size > max_file_size
    THEN [kind |-> "ValueError", detail |-> TooLarge]
    ELSE IF file_content.kind # "image"
    THEN [kind |-> "ValueError", detail |-> NotDecodable]
    ELSE [kind |-> "ok", width |-> file_content.width, height |-> file_content.height]

\* What one call of the object store does: it works, it fails with S3Error
\* (which MinIORepository catches), or it fails with another exception
\* (get_client() before connect, a transport error), which it lets through.
Outcomes == {"ok", "S3Error", "error"}

ObjectKeys == {o.key : o \in objects}

\* put_object: the object stored under a key replaces what was there
PutObject(obj) == {o \in objects : o.key # obj.key} \cup {obj}

\* list_objects(prefix = directory + "/"): [] on S3Error
list_objects(directory, outcome) ==
    IF outcome = "S3Error" THEN {} ELSE {o \in objects : o.key.dir = directory}

\* str(n), the text a number is stored as in the metadata
str(n) == [kind |-> "str", of |-> n]

\* one entry of the listing, from the object's stat and its metadata
ImageEntry(o) ==
    [file_name |-> [id |-> o.key.id, ext |-> o.key.ext],
     original_name |-> o.original_name,
     directory_name |-> o.key.dir,
     file_size |-> o.size,
     content_type |-> o.content_type,
     last_modified |-> o.last_modified,
     image_width |-> o.image_width,
     image_height |-> o.image_height]

\* the order of sorted(images, key=last_modified, reverse=True): later
\* first; the sort is stable, so entries of one timestamp stay in the
\* order of the listing, which is the order of the object names
ListedBefore(i, j) ==
    \/ i.last_modified > j.last_modified
    \/ i.last_modified = j.last_modified /\ i.file_name.id <= j.file_name.id

RECURSIVE sorted_by_last_modified(_)
sorted_by_last_modified(images) ==
    IF images = {} THEN <<>>
    ELSE LET first == CHOOSE i \in images : \A j \in images : ListedBefore(i, j)
         IN  <<first>> \o sorted_by_last_modified(images \ {first})

\* the images under a directory; an object whose stat fails with S3Error
\* (get_object_info returns None) is left out
get_images_in_directory(directory_name, outcome, skipped) ==
    LET directory == _sanitize_directory_name(directory_name)
    IN  IF directory.kind # "ok" THEN directory
        ELSE IF outcome = "error" THEN Raised("Exception")
        ELSE [kind |-> "ok",
              images |-> sorted_by_last_modified(
                            {ImageEntry(o) :
                               o \in list_objects(directory.value, outcome) \ skipped})]

_check_duplicate_name(directory_name, original_name, outcome, skipped) ==
    LET images == get_images_in_directory(directory_name, outcome, skipped)
    IN  IF images.kind # "ok" THEN images
        ELSE [kind |-> "ok",
              value |-> \E k \in DOMAIN images.images :
                           images.images[k].original_name = original_name]

\* whether the bucket holds an object of that original name in that directory
NameTaken(directory, original_name) ==
    \E o \in objects : o.key.dir = directory /\ o.original_name = original_name

\* the object name: directory, "/", a fresh uuid4 and the extension
unique_filename_reused(uuid, file_extension) == [id |-> 0, ext |-> file_extension]
\* (variant: the id is derived from the file's name)
unique_filename_fromName(uuid, file_extension) ==
    [id |-> Len(file_extension), ext |-> file_extension]
unique_filename(uuid, file_extension) == [id |-> uuid, ext |-> file_extension]
object_name(directory, file_name) ==
    [dir |-> directory, id |-> file_name.id, ext |-> file_name.ext]
NoKey == [dir |-> <<>>, id |-> 0, ext |-> <<>>]

\* the response of an image endpoint, with what the request was about:
\* puts counts the put_object calls the request issued, checked tells
\* that its duplicate check returned, taken what the bucket held then,
\* fault whether a call of the request to the object store failed
ImageResponse(op, status, detail, puts, key, original_name, checked, taken) ==
    [op |-> op, status |-> status, detail |-> detail, puts |-> puts, key |-> key,
     original_name |-> original_name, checked |-> checked, taken |-> taken,
     fault |-> FALSE]
WithFault(response, fault) == [response EXCEPT !.fault = fault]

\* the response of an upload, with the request it answers and whether the
\* content of the file had been read when it was produced
UploadResponse(r, file, directory_name, read, fault, put) ==
    [op |-> r.op, status |-> r.status, detail |-> r.detail, puts |-> r.puts,
     key |-> r.key, original_name |-> r.original_name, checked |-> r.checked,
     taken |-> r.taken, fault |-> fault,
     file |-> file, directory_name |-> directory_name, read |-> read, put |-> put]
NoImageResponse == ImageResponse("none", 0, "", 0, NoKey, <<>>, FALSE, FALSE)

MaxImageRequests == 2
ImageArrive == uploads < MaxImageRequests /\ uploads' = uploads + 1

Uploading(p) == ureq[p] # Idle

\* POST /api/images/upload up to "await file.read()": _validate_file, the
\* directory name, the object name, and the duplicate check over the listing
UploadCheck(p) ==
    /\ ~Uploading(p)
    /\ ImageArrive
    /\ overlapped' = (overlapped \/ \E q \in Procs \ {p} : Uploading(q))
    /\ \E file \in Files, directory_name \in UploadDirs,
          outcome \in Outcomes, skipped \in SUBSET objects :
         LET invalid == _validate_file(file)
             directory == _sanitize_directory_name(directory_name)
             original_name == file.filename
             fault == outcome # "ok" \/ skipped # {}
             Reject(status, detail, key, checked, taken) ==
                 /\ iresp' = UploadResponse(ImageResponse("upload", status, detail, 0, key,
                                                          original_name, checked, taken),
                                            file, directory_name, FALSE, fault, "none")
                 /\ UNCHANGED ureq
         IN  IF invalid # ""
             THEN /\ Reject(400, invalid, NoKey, FALSE, FALSE)
                  /\ outcome = "ok" /\ skipped = {}
                  /\ UNCHANGED <<nextUuid, faulted>>
             ELSE IF directory.kind # "ok"
             THEN /\ Reject(400, directory.detail, NoKey, FALSE, FALSE)
                  /\ outcome = "ok" /\ skipped = {}
                  /\ UNCHANGED <<nextUuid, faulted>>
             ELSE LET key == object_name(directory.value,
                                 unique_filename(nextUuid + 1,
                                                 _get_file_extension(original_name)))
                      duplicate == _check_duplicate_name(directory.value, original_name,
                                                         outcome, skipped)
                      taken == NameTaken(directory.value, original_name)
                  IN  /\ nextUuid' = nextUuid + 1
                      /\ outcome = "ok" \/ skipped = {}
                      /\ faulted' = (faulted \/ fault)
                      /\ IF duplicate.kind # "ok"
                         THEN Reject(500, InternalError, key, FALSE, taken)
                         ELSE IF duplicate.value
                         THEN Reject(400, DuplicateName, key, TRUE, taken)
                         ELSE /\ ureq' = [ureq EXCEPT ![p] =
                                            [pc |-> "read", file |-> file, key |-> key,
                                             directory_name |-> directory_name,
                                             taken |-> taken, fault |-> fault]]
                              /\ UNCHANGED iresp
    /\ UNCHANGED <<objects, sanVars, tokenVars, userVars, hashVars, managerVars>>

\* (variant: the put precedes the decoding)
upload_store_putFirst(file, outcome) ==
    LET image_info == _validate_and_process_image(file.content)
    IN  IF image_info.kind # "ok"
        THEN [status |-> 400, detail |-> image_info.detail, puts |-> 1,
              stored |-> outcome = "ok"]
        ELSE [status |-> 201, detail |-> "", puts |-> 1, stored |-> TRUE]
\* (variant: a failed put is answered as an invalid request)
upload_store_faultAsInvalid(file, outcome) ==
    LET image_info == _validate_and_process_image(file.content)
    IN  IF image_info.kind # "ok"
        THEN [status |-> 400, detail |-> image_info.detail, puts |-> 0, stored |-> FALSE]
        ELSE IF outcome # "ok"
        THEN [status |-> 400, detail |-> UploadFailed, puts |-> 1, stored |-> FALSE]
        ELSE [status |-> 201, detail |-> "", puts |-> 1, stored |-> TRUE]
\* what the rest of upload_image does with the content read: the image is
\* decoded, then put; a put that fails with S3Error is a RuntimeError
upload_store(file, outcome) ==
    LET image_info == _validate_and_process_image(file.content)
    IN  IF image_info.kind # "ok"
        THEN [status |-> 400, detail |-> image_info.detail, puts |-> 0, stored |-> FALSE]
        ELSE IF outcome = "S3Error"
        THEN [status |-> 500, detail |-> UploadFailed, puts |-> 1, stored |-> FALSE]
        ELSE IF outcome = "error"
        THEN [status |-> 500, detail |-> InternalError, puts |-> 1, stored |-> FALSE]
        ELSE [status |-> 201, detail |-> "", puts |-> 1, stored |-> TRUE]

\* the object put_object stores for an upload: content, type and metadata
\* last_modified is the store's clock, which advances as requests arrive
StoredObject(key, file, image_info) ==
    [key |-> key, original_name |-> file.filename, size |-> file.content.size,
     content_type |-> file.content_type,
     image_width |-> str(image_info.width), image_height |-> str(image_info.height),
     last_modified |-> uploads]

\* ... from the return of "await file.read()" to the response
UploadStore(p) ==
    /\ Uploading(p)
    /\ \E outcome \in Outcomes :
         LET file == ureq[p].file
             key == ureq[p].key
             result == upload_store(file, outcome)
         IN  /\ result.puts = 0 => outcome = "ok"
             /\ faulted' = (faulted \/ outcome # "ok")
             /\ objects' = IF result.stored
                           THEN PutObject(StoredObject(key, file,
                                              _validate_and_process_image(file.content)))
                           ELSE objects
             /\ iresp' = UploadResponse(ImageResponse("upload", result.status,
                                                      result.detail, result.puts, key,
                                                      file.filename, TRUE, ureq[p].taken),
                                        file, ureq[p].directory_name, TRUE,
                                        ureq[p].fault \/ outcome # "ok",
                                        IF result.puts = 0 THEN "none" ELSE outcome)
    /\ ureq' = [ureq EXCEPT ![p] = Idle]
    /\ UNCHANGED <<nextUuid, uploads, overlapped, sanVars, tokenVars, userVars, hashVars, managerVars>>

\* the file names a DELETE may carry: those of uuids drawn or not yet drawn
DeleteNames == [id : 1..MaxImageRequests, ext : {<<".", "p", "n", "g">>}]

\* DELETE /api/images/{directory_name}/{file_name}; the handler has no
\* suspension point. ValueError is answered 404, RuntimeError 500.
DeleteRequest ==
    /\ \E directory_name \in UploadDirs, file_name \in DeleteNames,
          stat \in Outcomes, remove \in Outcomes :
         LET directory == _sanitize_directory_name(directory_name)
             key == object_name(directory.value, file_name)
             Answer(status, detail, k) ==
                 iresp' = WithFault(ImageResponse("delete", status, detail, 0, k, <<>>,
                                                  FALSE, FALSE),
                                    stat # "ok" \/ remove # "ok")
         IN  IF directory.kind # "ok"
             THEN /\ Answer(404, directory.detail, NoKey)
                  /\ stat = "ok" /\ remove = "ok"
                  /\ UNCHANGED <<objects, faulted>>
             ELSE IF stat = "error"
             THEN /\ Answer(500, InternalError, key)
                  /\ remove = "ok"
                  /\ faulted' = TRUE
                  /\ UNCHANGED objects
             ELSE IF stat = "S3Error" \/ key \notin ObjectKeys
             THEN /\ Answer(404, ImageNotFound, key)
                  /\ remove = "ok"
                  /\ faulted' = (faulted \/ stat # "ok")
                  /\ UNCHANGED objects
             ELSE IF remove = "S3Error"
             THEN /\ Answer(500, DeleteFailed, key)
                  /\ faulted' = TRUE
                  /\ UNCHANGED objects
             ELSE IF remove = "error"
             THEN /\ Answer(500, InternalError, key)
                  /\ faulted' = TRUE
                  /\ UNCHANGED objects
             ELSE /\ Answer(200, "", key)
                  /\ objects' = {o \in objects : o.key # key}
                  /\ UNCHANGED faulted
    /\ UNCHANGED <<nextUuid, ureq, overlapped, sanVars, tokenVars, userVars, hashVars, managerVars>>

\* a delete request among the requests of a run
DeleteImage == ImageArrive /\ DeleteRequest

\* a delete request that may also arrive after the last of them, so that a
\* run has an upload and two deletes
DeleteAgain ==
    /\ uploads < MaxImageRequests + 1
    /\ uploads' = uploads + 1
    /\ DeleteRequest

\* the response of the listing endpoint carries the images
ListResponse(status, detail, directory_name, images, fault) ==
    [op |-> "list", status |-> status, detail |-> detail, puts |-> 0, key |-> NoKey,
     original_name |-> <<>>, checked |-> FALSE, taken |-> FALSE, fault |-> fault,
     directory_name |-> directory_name, images |-> images]

\* GET /api/images/{directory_name}; the handler has no suspension point.
\* ValueError is answered 400, anything else 500.
ListImages ==
    /\ ImageArrive
    /\ \E directory_name \in UploadDirs, outcome \in Outcomes, skipped \in SUBSET objects :
         LET images == get_images_in_directory(directory_name, outcome, skipped)
             fault == outcome # "ok" \/ skipped # {}
         IN  /\ outcome = "ok" \/ skipped = {}
             /\ images.kind = "ValueError" => ~fault
             /\ faulted' = (faulted \/ fault)
             /\ iresp' = IF images.kind = "ValueError"
                         THEN ListResponse(400, images.detail, directory_name, <<>>, fault)
                         ELSE IF images.kind = "raise"
                         THEN ListResponse(500, InternalError, directory_name, <<>>, fault)
                         ELSE ListResponse(200, "", directory_name, images.images, fault)
    /\ UNCHANGED <<objects, nextUuid, ureq, overlapped, sanVars, tokenVars, userVars, hashVars, managerVars>>

\* ---- POST /api/images/{directory_name}/bulk-upload

MaxBulk == 2                        \* files of one bulk request

\* the files a bulk request may carry: one that uploads unless its name is
\* taken or the store fails, one that no decoder accepts, and one that is
\* refused before its content is read
BulkFiles ==
    { UploadFile(NamePhoto, CtPng, Picture(2048)),
      UploadFile(NameOther, CtPng, Garbage(2048)),
      UploadFile(NameText, CtText, Garbage(2048)) }
BulkLists == UNION {[1..n -> BulkFiles] : n \in 1..MaxBulk}
BulkDirs == {<<".", ".", "/", "a">>, <<".", ".">>}

\* (variant: the loop ends at the first file that failed)
loop_next_stopAtError(i, n, failed) == IF failed THEN n + 1 ELSE i + 1
\* "for i, file in enumerate(files)" with the inner try/except: the next
\* index is the same whether or not upload_image raised
loop_next(i, n, failed) == i + 1

\* the dictionary bulk_upload_images returns; files, processed and added
\* tell what the request carried, the indices the loop visited and the
\* objects its puts stored
BulkResponse(frame) ==
    [op |-> "bulk", status |-> 200,
     success |-> Len(frame.errors) = 0,
     results |-> frame.results, errors |-> frame.errors,
     total_uploaded |-> Len(frame.results), total_errors |-> Len(frame.errors),
     files |-> frame.files, processed |-> frame.processed, added |-> frame.added]

\* bulk requests of a run: one for each worker
MaxBulkRequests == Cardinality(Procs)
BulkArrive == uploads < MaxBulkRequests /\ uploads' = uploads + 1

\* the request arrives and the loop starts; a request that arrives while
\* another is being served carries one file
BulkBegin(p) ==
    /\ ~Uploading(p)
    /\ BulkArrive
    /\ \E files \in BulkLists, directory_name \in BulkDirs :
         /\ (\E q \in Procs : Uploading(q)) => Len(files) = 1
         /\ ureq' = [ureq EXCEPT ![p] =
                    [pc |-> "bulk", files |-> files, directory_name |-> directory_name,
                     i |-> 1, results |-> <<>>, errors |-> <<>>, processed |-> <<>>,
                     added |-> 0, key |-> NoKey]]
    /\ UNCHANGED <<objects, nextUuid, overlapped, faulted, iresp,
                   sanVars, tokenVars, userVars, hashVars, managerVars>>

\* file i is done: the loop goes on, or the handler returns
BulkAdvance(p, frame, failed) ==
    LET i == loop_next(frame.i, Len(frame.files), failed)
        next == [frame EXCEPT !.pc = "bulk", !.i = i,
                              !.processed = Append(@, frame.i)]
    IN  IF i > Len(frame.files)
        THEN /\ iresp' = BulkResponse(next)
             /\ ureq' = [ureq EXCEPT ![p] = Idle]
        ELSE /\ ureq' = [ureq EXCEPT ![p] = next]
             /\ UNCHANGED iresp

\* upload_image for file i up to "await file.read()"; whatever it raises is
\* appended to errors as {"filename", "error"}
BulkCheck(p) ==
    /\ Uploading(p)
    /\ ureq[p].pc = "bulk"
    /\ \E outcome \in Outcomes, skipped \in SUBSET objects :
         LET frame == ureq[p]
             file == frame.files[frame.i]
             invalid == _validate_file(file)
             directory == _sanitize_directory_name(frame.directory_name)
             Fail(error) ==
                 BulkAdvance(p, [frame EXCEPT
                                   !.errors = Append(@, [filename |-> file.filename,
                                                         error |-> error])],
                             TRUE)
         IN  IF invalid # ""
             THEN /\ Fail(invalid)
                  /\ outcome = "ok" /\ skipped = {}
                  /\ UNCHANGED nextUuid
             ELSE IF directory.kind # "ok"
             THEN /\ Fail(directory.detail)
                  /\ outcome = "ok" /\ skipped = {}
                  /\ UNCHANGED nextUuid
             ELSE LET key == object_name(directory.value,
                                 unique_filename(nextUuid + 1,
                                                 _get_file_extension(file.filename)))
                      duplicate == _check_duplicate_name(directory.value, file.filename,
                                                         outcome, skipped)
                  IN  /\ nextUuid' = nextUuid + 1
                      /\ outcome = "ok" \/ skipped = {}
                      /\ IF duplicate.kind # "ok"
                         THEN Fail(duplicate.error)
                         ELSE IF duplicate.value
                         THEN Fail(DuplicateName)
                         ELSE /\ ureq' = [ureq EXCEPT ![p] =
                                            [frame EXCEPT !.pc = "bulk_read",
                                                          !.key = key]]
                              /\ UNCHANGED iresp
    /\ UNCHANGED <<objects, uploads, overlapped, faulted,
                   sanVars, tokenVars, userVars, hashVars, managerVars>>

\* ... and from the return of "await file.read()" to the end of upload_image:
\* the result is appended to results, or what was raised to errors
BulkStore(p) ==
    /\ Uploading(p)
    /\ ureq[p].pc = "bulk_read"
    /\ \E outcome \in Outcomes :
         LET frame == ureq[p]
             file == frame.files[frame.i]
             result == upload_store(file, outcome)
         IN  /\ result.puts = 0 => outcome = "ok"
             /\ objects' = IF result.stored
                           THEN PutObject(StoredObject(frame.key, file,
                                              _validate_and_process_image(file.content)))
                           ELSE objects
             /\ IF result.status = 201
                THEN BulkAdvance(p, [frame EXCEPT
                                       !.results = Append(@, frame.key),
                                       !.added = @ + (IF result.stored THEN 1 ELSE 0)],
                                 FALSE)
                ELSE BulkAdvance(p, [frame EXCEPT
                                       !.errors = Append(@, [filename |-> file.filename,
                                                             error |-> result.detail]),
                                       !.added = @ + (IF result.stored THEN 1 ELSE 0)],
                                 TRUE)
    /\ UNCHANGED <<nextUuid, uploads, overlapped, faulted,
                   sanVars, tokenVars, userVars, hashVars, managerVars>>

InitImages ==
    /\ objects = {}
    /\ nextUuid = 0
    /\ ureq = [p \in Procs |-> Idle]
    /\ uploads = 0
    /\ overlapped = FALSE
    /\ faulted = FALSE
    /\ iresp = NoImageResponse

IdleImages == InitImages

\* ---- MinIOManager (minio_client.py)

MaxConnects == 3                    \* connect() calls of a run

\* the Minio object the n-th connect() constructed
Client(n) == [kind |-> "Minio", id |-> n]

\* where a connect() may fail: in the constructor, in the connection test,
\* or in _ensure_bucket_exists
ConnectFaults == {"none", "Minio", "list_buckets", "bucket_exists", "make_bucket"}

\* MinIOManager.get_client
get_client(c) == IF c = None THEN Raised("RuntimeError") ELSE c

\* MinIOManager.ping: whether list_buckets returned; no client, or any
\* exception, is False
ping(c, listed) == IF c # None THEN listed ELSE FALSE

\* MinIOManager.connect(): self.client is assigned, then the connection is
\* tested and the bucket created if missing; whatever fails is raised again
Connect ==
    /\ Len(connects) < MaxConnects
    /\ \E fault \in ConnectFaults :
         /\ ~server.up => fault \in {"Minio", "list_buckets"}
         /\ fault = "make_bucket" => ~server.bucket
         /\ client' = IF fault = "Minio" THEN client ELSE Client(Len(connects) + 1)
         /\ server' = IF fault = "none" THEN [server EXCEPT !.bucket = TRUE] ELSE server
         /\ connects' = Append(connects, IF fault = "none" THEN "ok" ELSE "raised")
    /\ UNCHANGED <<called, sanVars, tokenVars, userVars, imageVars, hashVars>>

\* a call of get_client(), with the connect() calls that preceded it
GetClient ==
    /\ called' = [op |-> "get_client", result |-> get_client(client),
                  connects |-> connects]
    /\ UNCHANGED <<client, server, connects,
                   sanVars, tokenVars, userVars, imageVars, hashVars>>

\* a call of ping(): list_buckets returns only if the server is reachable
Ping ==
    /\ \E listed \in BOOLEAN :
         /\ listed => (client # None /\ server.up)
         /\ called' = [op |-> "ping", result |-> ping(client, listed),
                       connects |-> connects]
    /\ UNCHANGED <<client, server, connects,
                   sanVars, tokenVars, userVars, imageVars, hashVars>>

\* the MinIO server goes down or comes back
ServerTurn ==
    /\ server' = [server EXCEPT !.up = ~@]
    /\ UNCHANGED <<client, connects, called,
                   sanVars, tokenVars, userVars, imageVars, hashVars>>

\* MinIOManager.__init__; the server may be up or down, with or without bucket
InitManager ==
    /\ client = None
    /\ server \in [up : BOOLEAN, bucket : BOOLEAN]
    /\ connects = <<>>
    /\ called = [op |-> "none", result |-> None, connects |-> <<>>]

IdleManager ==
    /\ client = None
    /\ server = [up |-> TRUE, bucket |-> TRUE]
    /\ connects = <<>>
    /\ called = [op |-> "none", result |-> None, connects |-> <<>>]

----------------------------------------------------------------------------
(* Specifications                                                          *)

\* the directory sanitiser on its inputs
NextSan == Sanitize \/ NextDir
SanStart == InitSan /\ IdleToken /\ IdleUsers /\ IdleImages /\ InitHash /\ IdleManager
SpecSan == SanStart /\ [][NextSan]_vars

\* token issue and verification over time
NextToken == IssueToken \/ IssueTokenDefault \/ PresentToken \/ Tick \/ VerifyToken
TokenStart == IdleSan /\ InitToken /\ IdleUsers /\ IdleImages /\ InitHash /\ IdleManager
SpecToken == TokenStart /\ [][NextToken]_vars

\* user management and login on either backend
NextUsers ==
    \/ SqliteCreateUser \/ SqliteUpdateUser \/ SqliteDeleteUser \/ SqliteLogin
    \/ MongoLogin \/ MongoVerify \/ MongoGetUser
    \/ \E p \in Procs :
         \/ MongoCreateCheck(p) \/ MongoCreateInsert(p)
         \/ MongoUpdateCheck(p) \/ MongoUpdateGet(p) \/ MongoUpdateSave(p)
         \/ MongoDeleteGet(p) \/ MongoDeleteRemove(p)
UsersStart == IdleSan /\ IdleToken /\ InitUsers /\ IdleImages /\ InitHash /\ IdleManager
SpecUsers == UsersStart /\ [][NextUsers]_vars

\* uploads, which suspend at the read of the file, and deletes
NextImages ==
    \/ DeleteImage
    \/ ListImages
    \/ \E p \in Procs : UploadCheck(p) \/ UploadStore(p)
ImagesStart == IdleSan /\ IdleToken /\ IdleUsers /\ InitImages /\ InitHash /\ IdleManager
SpecImages == ImagesStart /\ [][NextImages]_vars

\* the same, with one more delete
NextDelete == NextImages \/ DeleteAgain
SpecDelete == ImagesStart /\ [][NextDelete]_vars

\* bulk uploads, two requests at a time
NextBulk == \E p \in Procs : BulkBegin(p) \/ BulkCheck(p) \/ BulkStore(p)
SpecBulk == ImagesStart /\ [][NextBulk]_vars

\* hashing and verifying passwords against what a column may hold
NextHash == HashPassword \/ HashTwice \/ ReadStored \/ VerifyPassword
HashStart == IdleSan /\ IdleToken /\ IdleUsers /\ IdleImages /\ InitHash /\ IdleManager
SpecHash == HashStart /\ [][NextHash]_vars

\* the MinIO manager and its server
NextManager == Connect \/ GetClient \/ Ping \/ ServerTurn
ManagerStart == IdleSan /\ IdleToken /\ IdleUsers /\ IdleImages /\ InitHash /\ InitManager
SpecManager == ManagerStart /\ [][NextManager]_vars

----------------------------------------------------------------------------
(* Claims about the credential stores (SpecUsers)                          *)

StoredPasswords ==
    {r.password : r \in sqliteUsers} \cup {d.password : d \in Docs}

\* C1: in every reachable state of either backend, the password field of
\* every stored credential record is a one-way hash, never the plaintext
\* the caller supplied.
C1_StoredPasswordsAreHashes ==
    \A stored \in StoredPasswords : stored.kind = "bcrypt"

\* the lookup by username that authenticate_user starts with, per backend
ByUsername(username) ==
    IF backend = "sqlite" THEN SqliteByUsername(username) ELSE MongoFindOne(username)

ById(id) == IF backend = "sqlite" THEN SqliteById(id) ELSE MongoGetById(id)

\* C2: once create_user has registered (identity, secret), authenticate
\* (identity, secret) returns that credential record and authenticate
\* (identity, secret + "x") returns None.
C2_RegisteredPairAuthenticates ==
    (resp.op = "create" /\ resp.status = 201) =>
        /\ authenticate_user(ByUsername(resp.username), resp.password) = ById(resp.id)
        /\ authenticate_user(ByUsername(resp.username), resp.password \o <<"x">>) = None

\* C3: no two credential records of a backend have the same username, in
\* any interleaving of create and update requests.
C3_UniqueIdentity ==
    /\ \A r1, r2 \in sqliteUsers : r1.username = r2.username => r1 = r2
    /\ \A i, j \in DOMAIN mongoUsers :
          mongoUsers[i].username = mongoUsers[j].username => i = j

\* C8: every failed login at POST /api/auth/login ends the same way,
\* whether or not the identity exists: login returns None and the endpoint
\* answers 401 with the one detail; no failed login ends otherwise.
C8_FailedLoginUniform ==
    (resp.op = "login" /\ resp.status # 200) =>
        (resp.status = 401 /\ resp.detail = BadLogin)

----------------------------------------------------------------------------
(* Claims about _sanitize_directory_name (SpecSan)                         *)

\* the character class [A-Za-z0-9_-]
InAsciiClass(c) == c \in AsciiAlnum \cup DashUnder

\* C7: the result is either the invalid-directory error or a non-empty
\* string of at most 50 characters, each in [A-Za-z0-9_-]: exactly the
\* input's characters of that class, in order, cut to 50; the error is
\* raised exactly when the input has no such character.
C7_SanitizeContract ==
    dirOut # Pending =>
        LET kept == SelectSeq(dirIn, InAsciiClass)
        IN  IF kept = <<>>
            THEN dirOut = InvalidDirectory
            ELSE /\ dirOut.kind = "ok"
                 /\ dirOut.value = Take(kept, MaxDirNameLen)
                 /\ Len(dirOut.value) \in 1..MaxDirNameLen
                 /\ \A i \in DOMAIN dirOut.value : InAsciiClass(dirOut.value[i])

----------------------------------------------------------------------------
(* Claims about bearer tokens (SpecToken)                                  *)

\* C9: a token from create_access_token with sub = id verifies to subject
\* id at every time up to its expiry (the issue time plus the 30 minute
\* TTL), and verify_token returns None for it at every later time.
C9_TokenLifetime ==
    (tokenOrigin.kind = "issued" /\ verdict # Pending) =>
        IF now <= tokenOrigin.at + ACCESS_TOKEN_EXPIRE_MINUTES
        THEN /\ verdict.kind = "payload"
             /\ verdict.payload.sub = StrSub(tokenOrigin.sub)
        ELSE verdict = None

\* an issued token was verified after its expiry
C9_Witness ==
    /\ tokenOrigin.kind = "issued"
    /\ now > tokenOrigin.at + ACCESS_TOKEN_EXPIRE_MINUTES
    /\ verdict = None

Malformed(tok) == tok.kind # "jwt"
Tampered(tok)  == tok.kind = "jwt" /\ tok.key # SECRET_KEY
Expired(tok)   == tok.kind = "jwt" /\ tok.claims.exp < now
LacksSub(tok)  == tok.kind = "jwt" /\ tok.claims.sub.kind = "absent"

\* C10: verify_token returns None, and lets no exception escape, for every
\* token that is expired, tampered, malformed or without a subject claim.
C10_BadTokenIsNone ==
    (verdict # Pending /\
     (Malformed(token) \/ Tampered(token) \/ Expired(token) \/ LacksSub(token)))
        => verdict = None

\* a token signed with the process key, not expired, without "sub", refused
C10_Witness ==
    /\ verdict = None
    /\ LacksSub(token) /\ ~Tampered(token) /\ ~Expired(token)

----------------------------------------------------------------------------
(* Claims about image storage (SpecImages)                                 *)

\* C4: an upload answered 400, whether it failed at file validation, at the
\* directory name, at the duplicate check or at decoding, has issued no put
\* and the step that answers it leaves the bucket as it was.
C4_RejectedUploadIssuesNoPut ==
    [][ (iresp'.op = "upload" /\ iresp'.status = 400)
            => (iresp'.puts = 0 /\ objects' = objects) ]_vars

\* an upload refused at decoding, the last check before the put, while the
\* bucket holds an earlier upload
C4_Witness ==
    /\ iresp.op = "upload" /\ iresp.status = 400
    /\ iresp.detail = NotDecodable
    /\ iresp.puts = 0
    /\ objects # {}

SameSlot(o1, o2) ==
    o1.key.dir = o2.key.dir /\ o1.original_name = o2.original_name

\* C5: an upload whose duplicate check ran is rejected as a duplicate
\* exactly when the bucket then held an object of the same original name in
\* the same sanitised directory; so, as long as no two uploads overlapped,
\* no two objects of one directory share an original name.
C5_DuplicateExactlyWhenNameTaken ==
    /\ (iresp.op = "upload" /\ iresp.checked)
            => ((iresp.detail = DuplicateName) <=> iresp.taken)
    /\ \A p \in Procs : Uploading(p) => ~ureq[p].taken
    /\ ~overlapped => \A o1, o2 \in objects : SameSlot(o1, o2) => o1 = o2

\* C6: uploads that are past the duplicate check at the same time hold
\* different object names, none of them in the bucket yet, and an upload
\* answered 201 has its object in the bucket under its own name: two
\* overlapping uploads of one original name into one directory both succeed
\* and leave two objects.
C6_OverlappingUploadsBothStored ==
    /\ \A p, q \in Procs :
          (p # q /\ Uploading(p) /\ Uploading(q)) => ureq[p].key # ureq[q].key
    /\ \A p \in Procs : Uploading(p) => ureq[p].key \notin ObjectKeys
    /\ (iresp.op = "upload" /\ iresp.status = 201)
          => \E o \in objects : o.key = iresp.key /\ o.original_name = iresp.original_name

\* two objects of one original name in one directory, after two overlapping
\* uploads and without any failure of the object store
C6_Witness ==
    /\ overlapped /\ ~faulted
    /\ iresp.op = "upload" /\ iresp.status = 201
    /\ \E o1, o2 \in objects : o1.key # o2.key /\ SameSlot(o1, o2)

----------------------------------------------------------------------------
(* Claims about password verification (SpecHash)                           *)

\* C11: verify_password returns False, and raises nothing, whenever the
\* stored value is not a well-formed hash, whatever the plaintext.
C11_MalformedHashVerifiesFalse ==
    (hResult # Pending /\ hStored.kind # "bcrypt")
        => hResult = [kind |-> "bool", value |-> FALSE]

----------------------------------------------------------------------------
(* Claims about failures of the object store (SpecImages)                  *)

\* C12: a request during which a call to the object store failed ends in
\* a server-error response: a failed listing does not let an upload pass
\* its duplicate check or list as empty, and a failed existence check does
\* not make a delete answer not-found.
C12_StoreFaultsPropagate ==
    /\ iresp.fault => iresp.status >= 500
    /\ \A p \in Procs : Uploading(p) => ~ureq[p].fault

----------------------------------------------------------------------------
(* Claims about the checks of an upload (SpecImages)                       *)

\* the error of the earliest check an upload fails, in the order: filename,
\* extension, declared content type, directory name, duplicate name, size,
\* decoding; "" when it fails none (taken: the bucket holds an object of
\* the file's name in the directory when the duplicate check runs)
FirstFailure(file, directory_name, taken) ==
    IF file.filename = <<>> THEN NoFilename
    ELSE IF lower(_get_file_extension(file.filename)) \notin allowed_extensions
    THEN NotAllowedType
    ELSE IF ~startswith(file.content_type, ImagePrefix) THEN NotAnImage
    ELSE IF \A i \in DOMAIN directory_name : ~SanitizeKeeps(directory_name[i])
    THEN InvalidDirectory.detail
    ELSE IF taken THEN DuplicateName
    ELSE IF file.content.size > max_file_size THEN TooLarge
    ELSE IF file.content.kind # "image" THEN NotDecodable
    ELSE ""

BeforeRead == {NoFilename, NotAllowedType, NotAnImage, InvalidDirectory.detail, DuplicateName}

\* C13: an upload that is not answered with a server error is answered
\* with the error of the earliest check it fails, a client error, and with
\* 201 when it fails none; an error of a check before the size and
\* decoding checks is reported without the content having been read.
C13_EarliestFailureReported ==
    (iresp.op = "upload" /\ iresp.status < 500) =>
        /\ iresp.detail = FirstFailure(iresp.file, iresp.directory_name, iresp.taken)
        /\ iresp.status = IF iresp.detail = "" THEN 201 ELSE 400
        /\ iresp.detail \in BeforeRead => ~iresp.read

\* the extensions and the ceiling the validation is specified with
ImageExtensions ==
    { <<"j", "p", "g">>, <<"j", "p", "e", "g">>, <<"p", "n", "g">>,
      <<"g", "i", "f">>, <<"b", "m", "p">>, <<"w", "e", "b", "p">> }
TenMiB == 10 * 1024 * 1024

ValidUpload(file) ==
    /\ \E e \in ImageExtensions : lower(_get_file_extension(file.filename)) = <<".">> \o e
    /\ startswith(file.content_type, ImagePrefix)
    /\ file.content.size <= TenMiB

ValidationErrors == {NoFilename, NotAllowedType, NotAnImage, TooLarge}

\* C14: an upload is refused with a validation error only if its
\* extension, lower-cased, is not one of jpg, jpeg, png, gif, bmp, webp, or
\* its content type does not start with "image/", or it is longer than
\* 10 MiB; an upload with one of these defects is never accepted: unless a
\* failure of the store ends it with a server error first, it is refused
\* with 400, with a validation error unless the directory name or a
\* duplicate name refused it first.
C14_ValidationExact ==
    iresp.op = "upload" =>
        /\ ValidUpload(iresp.file) => iresp.detail \notin ValidationErrors
        /\ ~ValidUpload(iresp.file) =>
              \/ /\ iresp.status = 400
                 /\ iresp.detail \in ValidationErrors
                                     \cup {InvalidDirectory.detail, DuplicateName}
              \/ /\ iresp.status = 500 /\ iresp.fault /\ iresp.puts = 0

\* a file named p.PNG of exactly 10 MiB, accepted and stored
C14_Witness ==
    /\ iresp.op = "upload" /\ iresp.status = 201
    /\ iresp.file.filename = NameUpper
    /\ iresp.file.content.size = TenMiB
    /\ \E o \in objects : o.key = iresp.key

----------------------------------------------------------------------------
(* Claims about listing and deleting images (SpecImages)                   *)

\* the entry a listing shows for a stored object
Describes(entry, o) ==
    /\ entry.file_name = [id |-> o.key.id, ext |-> o.key.ext]
    /\ entry.original_name = o.original_name
    /\ entry.file_size = o.size
    /\ entry.image_width = o.image_width
    /\ entry.image_height = o.image_height

\* the objects of the directory a request names
ObjectsUnder(directory_name) ==
    LET directory == _sanitize_directory_name(directory_name)
    IN  {o \in objects : directory.kind = "ok" /\ o.key.dir = directory.value}

\* C15: a successful upload leaves, under its key, an object with the
\* file's original name, size, width and height; a listing of a directory
\* shows exactly the objects the bucket holds under it, each with those
\* values; after a successful delete the bucket no longer holds the key,
\* so the next listing does not show it.
C15_RoundTrip ==
    /\ (iresp.op = "upload" /\ iresp.status = 201) =>
          \E o \in objects :
             /\ o.key = iresp.key
             /\ o.original_name = iresp.file.filename
             /\ o.size = iresp.file.content.size
             /\ o.image_width = str(iresp.file.content.width)
             /\ o.image_height = str(iresp.file.content.height)
    /\ (iresp.op = "list" /\ iresp.status = 200) =>
          /\ \A o \in ObjectsUnder(iresp.directory_name) :
                \E k \in DOMAIN iresp.images : Describes(iresp.images[k], o)
          /\ \A k \in DOMAIN iresp.images :
                \E o \in ObjectsUnder(iresp.directory_name) : Describes(iresp.images[k], o)
    /\ (iresp.op = "delete" /\ iresp.status = 200) => iresp.key \notin ObjectKeys

\* C16: a delete request whose key names no object of the sanitized
\* directory answers 404 and leaves the bucket unchanged; a delete request
\* whose key names an object removes exactly that object, or, when the
\* store call fails, answers a server error and leaves the bucket unchanged.
C16_DeleteExact ==
    [][DeleteImage =>
          IF iresp'.key \notin ObjectKeys
          THEN \/ iresp'.status = 404 /\ objects' = objects
               \/ iresp'.status >= 500 /\ objects' = objects
          ELSE \/ /\ iresp'.status = 200
                  /\ objects' = {o \in objects : o.key # iresp'.key}
               \/ iresp'.status >= 500 /\ objects' = objects]_vars

\* the details of the client-error answers an upload can get
ClientErrors == ValidationErrors \cup {InvalidDirectory.detail, DuplicateName}

C18_FreshStorageKey ==
    [][\A p \in Procs :
          /\ (~Uploading(p) /\ Uploading(p)') =>
                LET k == ureq'[p].key
                IN  /\ k.dir = _sanitize_directory_name(ureq'[p].directory_name).value
                    /\ k.ext = _get_file_extension(ureq'[p].file.filename)
                    /\ k.id = nextUuid' /\ nextUuid' > nextUuid
                    /\ \A o \in objects : o.key.id <= nextUuid
                    /\ \A q \in Procs \ {p} : Uploading(q) => ureq[q].key.id <= nextUuid
          /\ (Uploading(p) /\ ~Uploading(p)' /\ iresp'.status = 201) =>
                /\ iresp'.key = ureq[p].key
                /\ iresp'.key \notin ObjectKeys
                /\ objects \subseteq objects'
                /\ \E o \in objects' : o.key = iresp'.key /\ objects' = objects \cup {o}]_vars
C18_Witness ==
    /\ iresp.op = "upload" /\ iresp.status = 201
    /\ iresp.directory_name = <<".", ".", "/", "a">>
    /\ iresp.key.dir = <<"a">>
    /\ iresp.file.filename = NameUpper
    /\ iresp.key.ext = <<".", "p", "n", "g">>
    /\ iresp.key.id = 2
    /\ \E o \in objects : o.key.dir = <<"a">> /\ o.key.id = 1
    /\ \E o \in objects : o.key = iresp.key

----------------------------------------------------------------------------
(* Claims about unknown user ids (SpecUsers)                               *)

\* no user of the backend in use has this id
UnknownId(id) ==
    IF backend = "sqlite" THEN SqliteById(id) = None ELSE MongoGetById(id) = None

\* a step that looks the user up and answers: a request served in one step,
\* or the get_by_id of a Mongo update
AnswersAtLookup ==
    /\ resp' # NoResp
    /\ \/ started' # started
       \/ \E p \in Procs : mreq[p].pc = "update_get" /\ mreq'[p] = Idle

\* C19: a get, an update (with any payload) or a delete that names an id no user
\* has answers 404 and leaves the users of both backends as they were.
C19_UnknownIdIsNotFound ==
    [][(AnswersAtLookup /\ resp'.op \in {"get", "update", "delete"}
                        /\ UnknownId(resp'.id)) =>
          /\ resp'.status = 404
          /\ UNCHANGED <<sqliteUsers, mongoUsers>>]_vars

\* C20: a request during which a call raised an exception the handler does
\* not name is answered with a server error whose detail is the generic
\* message.
C20_UnexpectedIsGeneric500 ==
    resp.raised => (resp.status >= 500 /\ resp.detail = InternalError)

----------------------------------------------------------------------------
(* Claims about the stored users (SpecUsers)                               *)

\* the users either backend holds
StoredUsers == sqliteUsers \cup Docs

\* C21: every stored username has between 3 and 50 characters.
C21_UsernameLength ==
    \A user \in StoredUsers :
        Len(user.username) >= MinUsernameLen /\ Len(user.username) <= MaxUsernameLen

\* C22: two calls of get_password_hash on one password return two different
\* hashes, and verify_password of the password is True against each; a
\* verify_password of the password a stored hash was made from is True.
True == [kind |-> "bool", value |-> TRUE]
C22_HashVerifies ==
    /\ hResult.kind = "twice" =>
          /\ hResult.first.kind = "bcrypt" /\ hResult.second.kind = "bcrypt"
          /\ hResult.first # hResult.second
          /\ hResult.verified = <<True, True>>
    /\ (hResult.kind \in {"bool", "raise"} /\ hStored.kind = "bcrypt"
                                          /\ hStored.digest = hPlain) =>
          hResult = True

\* C23: a listing answered 200 has one entry for each object the bucket
\* holds under the sanitized directory, with the metadata stored with it,
\* and the entries are in descending order of last_modified.
C23_ListingCompleteAndSorted ==
    (iresp.op = "list" /\ iresp.status = 200) =>
        /\ Len(iresp.images) = Cardinality(ObjectsUnder(iresp.directory_name))
        /\ \A o \in ObjectsUnder(iresp.directory_name) :
              \E k \in DOMAIN iresp.images :
                 /\ Describes(iresp.images[k], o)
                 /\ iresp.images[k].last_modified = o.last_modified
        /\ \A i, j \in DOMAIN iresp.images :
              i < j => iresp.images[i].last_modified >= iresp.images[j].last_modified

\* C24: on either backend a create request is answered 201 only when its
\* username has at least 3 characters and its plaintext password at least
\* 6 (a missing one has none); the other requests leave nothing stored.
C24_CreateValidatesPlaintext ==
    (resp.op = "create" /\ resp.status = 201) =>
        /\ Len(resp.username) >= MinUsernameLen
        /\ Len(resp.password) >= MinPasswordLen

\* the details of the 400 answers _validate_create_data gives
CreateErrors ==
    {"Username is required", "Password is required",
     "Username must be at least 3 characters long",
     "Password must be at least 6 characters long"}

\* C25: a create request whose username a stored user already has is
\* answered 400, with the detail "Username already exists" unless the
\* request is invalid as well, and leaves the stored users as they were.
C25_DuplicateCreateIs400 ==
    [][(started' # started /\ resp'.op = "create" /\ resp'.known) =>
          /\ resp'.status = 400
          /\ resp'.detail \in {UsernameExists} \cup CreateErrors
          /\ UNCHANGED <<sqliteUsers, mongoUsers>>]_vars

\* C26: after an update answered 200 whose payload set the password to p,
\* authenticate_user of that user with p returns the user, and with any
\* other password (the previous one included) returns None.
C26_UpdatedPasswordAuthenticates ==
    (resp.op = "update" /\ resp.status = 200 /\ resp.password # <<>>
                        /\ ById(resp.id) # None) =>
        /\ authenticate_user(ById(resp.id), resp.password) = ById(resp.id)
        /\ \A previous \in PassWords \ {resp.password} :
              authenticate_user(ById(resp.id), previous) = None

\* C27: the user GET /api/auth/verify answers for a token is the user whose
\* login the token was issued to.
C27_TokenResolvesToItsUser ==
    (resp.op = "verify" /\ resp.status = 200 /\ tokenOrigin.kind = "issued") =>
        resp.id = tokenOrigin.id

\* C28: of two delete requests for one object, served one after the other,
\* one answers 200 and the other 404, unless one of them answers a server
\* error.
C28_OneOfTwoDeletesSucceeds ==
    [][(/\ DeleteRequest
        /\ iresp.op = "delete" /\ iresp.key # NoKey /\ iresp'.key = iresp.key
        /\ (iresp.status = 200 \/ iresp.key \in ObjectKeys)) =>
          \/ iresp.status >= 500 \/ iresp'.status >= 500
          \/ {iresp.status, iresp'.status} = {200, 404}]_vars

Completed(calls) == \E k \in DOMAIN calls : calls[k] = "ok"

\* C30: get_client returns a client only if an earlier connect() completed
\* without raising; called before any connect(), or when the last connect()
\* raised, get_client raises RuntimeError and ping returns false.
C30_ClientOnlyAfterConnect ==
    /\ (called.op = "get_client" /\ called.result.kind = "Minio")
          => Completed(called.connects)
    /\ (called.op \in {"get_client", "ping"}
          /\ (called.connects = <<>>
                \/ called.connects[Len(called.connects)] = "raised"))
          => IF called.op = "ping" THEN called.result = FALSE
             ELSE called.result = Raised("RuntimeError")

----------------------------------------------------------------------------
====
